---------------------------- MODULE Spec2Model ----------------------------
(***************************************************************************)
(* The VCNL4010 driver of adafruit_vcnl4010.py as a state machine.         *)
(*                                                                         *)
(* The driver is run by one caller.  Its position is a call stack of       *)
(* frames (function, position in the function, argument, local); every     *)
(* action is one step of the function on top of the stack.  The three      *)
(* register primitives take four steps each: entering the `with` block     *)
(* (the bus lock), the body (the scratch buffer and the bus transaction),  *)
(* leaving the block (unlock) and the return expression, which reads the   *)
(* class-level scratch buffer after the lock is released.                  *)
(*                                                                         *)
(* The device is a register file 0x80..0x90 that stores what is written    *)
(* and answers a read with the addressed register and the one after it     *)
(* (address auto-increment).  The COMMAND register is the device's own:    *)
(* at each read of it the device presents any byte of CmdBytes.            *)
(***************************************************************************)
EXTENDS Integers, Sequences, FiniteSets, TLC

(* ------------------------- constants of the source --------------------- *)
_VCNL4010_COMMAND == 128
_VCNL4010_PRODUCTID == 129
_VCNL4010_PROXRATE == 130
_VCNL4010_IRLED == 131
_VCNL4010_AMBIENTDATA == 133
_VCNL4010_PROXIMITYDATA == 135
_VCNL4010_INTCONTROL == 137
_VCNL4010_INTSTAT == 142
_VCNL4010_MODTIMING == 143
_VCNL4010_MEASUREAMBIENT == 16
_VCNL4010_MEASUREPROXIMITY == 8
_VCNL4010_AMBIENTREADY == 64
_VCNL4010_PROXIMITYREADY == 32
SAMPLERATE_1_95 == 0
FREQUENCY_390K625 == 0

(* ------------------------------- bounds -------------------------------- *)
\* The bus history of one call keeps its first MaxLog transactions.
MaxLog == 8
\* The caller makes at most MaxCalls public calls, the constructor among them.
MaxCalls == 3

Byte == 0..255
RegAddrs == 128..144

(* ------------------------ integer operations --------------------------- *)
RECURSIVE BitAnd(_, _)
\* Python's x & y on non-negative integers.
BitAnd(x, y) ==
    IF x = 0 \/ y = 0 THEN 0
    ELSE (IF x % 2 = 1 /\ y % 2 = 1 THEN 1 ELSE 0) + 2 * BitAnd(x \div 2, y \div 2)

\* Python's x & ~m for x >= 0 and m >= 0 (~m is -m-1, all bits but m's).
AndNot(x, m) == x - BitAnd(x, m)

\* Python's x | y on non-negative integers.
BitOr(x, y) == x + y - BitAnd(x, y)

\* Python's x & 0xFF on any integer (two's complement of unbounded width).
Low8(x) == x % 256

\* Python's x << n and x >> n on non-negative integers.
Shl(x, n) == x * (2 ^ n)
Shr(x, n) == x \div (2 ^ n)

(* ------------------------------- state --------------------------------- *)
VARIABLES
    regs,         \* the device's register file, RegAddrs -> Byte
    BUFFER,       \* VCNL4010._BUFFER, the class-level bytearray(3), indexed 0..2
    locked,       \* the I2C bus lock held through the I2CDevice context manager
    stack,        \* the caller's call stack, the running function last
    ret,          \* the value of the last return: <<v>>, or <<>> for None
    outcome,      \* of the current call: "none" while it runs, "returned", or the exception
    constructed,  \* "no" before __init__, "yes" once it returned, "failed" once it raised
    op,           \* the public call in progress or last made: [name, arg]
    prev,         \* <<name, arg>> of the call before op if it was a setter that returned
    log,          \* the bus transactions of the current call, in order
    ncalls,       \* the number of public calls made so far
    cur,          \* the caller that is running, 1 or 2
    other,        \* what belongs to the caller that is not running (see Switch)
    last,         \* the caller whose transaction used BUFFER last, 0 before any
    torn          \* in the current call a read primitive evaluated its return
                  \* expression after another caller's transaction had used BUFFER

vars == <<regs, BUFFER, locked, stack, ret, outcome, constructed, op, prev, log, ncalls,
          cur, other, last, torn>>

Frame(fn, address, val) ==
    [fn |-> fn, pc |-> "start", address |-> address, val |-> val, tmp |-> 0]

Top == stack[Len(stack)]
Pop == SubSeq(stack, 1, Len(stack) - 1)
At(fn, pc) == stack # <<>> /\ Top.fn = fn /\ Top.pc = pc

Record(e) == IF Len(log) < MaxLog THEN Append(log, e) ELSE log

\* A call from the running function: it continues at pc `cont` with local `tmp`.
CallFn(cont, tmp, callee) ==
    /\ stack' = Append([stack EXCEPT ![Len(stack)].pc = cont,
                                     ![Len(stack)].tmp = tmp], callee)
    /\ UNCHANGED <<ret, outcome, constructed>>

\* The running function returns v (<<>> for None) to its caller.
Return(v) ==
    /\ stack' = Pop
    /\ ret' = v
    /\ outcome' = IF Len(stack) = 1 THEN "returned" ELSE outcome
    /\ constructed' = IF Len(stack) = 1 /\ Top.fn = "__init__" THEN "yes" ELSE constructed

\* An exception: no function of the driver catches any, so the whole stack unwinds.
Raise(exc) ==
    /\ stack' = <<>>
    /\ ret' = <<>>
    /\ outcome' = exc
    /\ constructed' = IF stack[1].fn = "__init__" THEN "failed" ELSE constructed

(* --------------------------- the device -------------------------------- *)
\* The bytes the COMMAND register is seen to hold: nothing set, one ready bit alone,
\* and every bit but one ready bit (0xDF, 0xBF).
CmdBytes == {0, 32, 64, 223, 191}

\* i2c.write(buf, end=2): the device stores the value byte at the address byte.
DeviceWrite(address, val) == [regs EXCEPT ![address] = val]

\* The register files the device may hold when a read starts at `address`: COMMAND
\* is the device's own and holds any byte of S, the others hold what they held.
Presented(S, address) ==
    IF address = _VCNL4010_COMMAND
    THEN {[regs EXCEPT ![_VCNL4010_COMMAND] = c] : c \in S}
    ELSE {regs}

\* The two bytes the device sends for a read that starts at `address`.
DeviceRead(r, address) == <<r[address], r[address + 1]>>

(* ------------------------ register primitives -------------------------- *)
PrimFns == {"_read_u8", "_read_u16BE", "_write_u8"}

\* `with self._device as i2c:` I2CDevice.__enter__ takes the bus lock.
WithEnter ==
    /\ stack # <<>> /\ Top.fn \in PrimFns /\ Top.pc = "start"
    /\ ~locked
    /\ locked' = TRUE
    /\ stack' = [stack EXCEPT ![Len(stack)].pc = "body"]
    /\ UNCHANGED <<regs, BUFFER, ret, outcome, constructed, op, prev, log, ncalls,
                   cur, other, last, torn>>

\* Mutant of ReadInto: in_end = 2, one byte read and BUFFER[2] left as it was.
ReadIntoOneByte(address, bytes) ==
    [i \in 0..2 |-> IF i = 0 THEN Low8(address) ELSE IF i = 1 THEN bytes[1] ELSE BUFFER[2]]

\* The buffer after write_then_readinto(BUFFER, BUFFER, out_end=1, in_start=1): in_end
\* defaults to len(BUFFER) = 3, so two bytes are read into BUFFER[1] and BUFFER[2].
ReadInto(address, bytes) ==
    [i \in 0..2 |-> IF i = 0 THEN Low8(address) ELSE bytes[i]]

\* The body of _read_u8 and _read_u16BE.  When the read starts at COMMAND the device
\* presents a byte of S there.
ReadBody(S) ==
    /\ stack # <<>> /\ Top.fn \in {"_read_u8", "_read_u16BE"} /\ Top.pc = "body"
    /\ locked
    /\ \E r \in Presented(S, Low8(Top.address)) :
          /\ regs' = r
          /\ BUFFER' = ReadInto(Top.address, DeviceRead(r, Low8(Top.address)))
          /\ log' = Record([fn |-> Top.fn, address |-> Low8(Top.address),
                            data |-> DeviceRead(r, Low8(Top.address))])
    /\ stack' = [stack EXCEPT ![Len(stack)].pc = "exit"]
    /\ last' = cur
    /\ UNCHANGED <<locked, ret, outcome, constructed, op, prev, ncalls, cur, other, torn>>

\* The body of _write_u8.
WriteBody ==
    /\ At("_write_u8", "body")
    /\ locked
    /\ LET a == Low8(Top.address)
           v == Low8(Top.val)
       IN  /\ BUFFER' = [BUFFER EXCEPT ![0] = a, ![1] = v]
           /\ regs' = DeviceWrite(a, v)
           /\ log' = Record([fn |-> Top.fn, address |-> a, data |-> <<v>>])
    /\ stack' = [stack EXCEPT ![Len(stack)].pc = "exit"]
    /\ last' = cur
    /\ UNCHANGED <<locked, ret, outcome, constructed, op, prev, ncalls, cur, other, torn>>

\* Mutant of BusError: the failed transaction is caught and the primitive tried again.
BusErrorRetried ==
    /\ stack # <<>> /\ Top.fn \in PrimFns /\ Top.pc = "body"
    /\ locked
    /\ BUFFER' = [BUFFER EXCEPT ![0] = Low8(Top.address),
                                ![1] = IF Top.fn = "_write_u8" THEN Low8(Top.val) ELSE @]
    /\ locked' = FALSE
    /\ stack' = [stack EXCEPT ![Len(stack)].pc = "start"]
    /\ last' = cur
    /\ UNCHANGED <<regs, ret, outcome, constructed, op, prev, log, ncalls, cur, other, torn>>

\* Mutant of BusError: the exception leaves the primitive with the lock still held.
BusErrorHolding ==
    /\ stack # <<>> /\ Top.fn \in PrimFns /\ Top.pc = "body"
    /\ locked
    /\ BUFFER' = [BUFFER EXCEPT ![0] = Low8(Top.address),
                                ![1] = IF Top.fn = "_write_u8" THEN Low8(Top.val) ELSE @]
    /\ Raise("OSError")
    /\ last' = cur
    /\ UNCHANGED <<regs, locked, op, prev, log, ncalls, cur, other, torn>>

\* The transaction fails (no acknowledge, timeout): the bus raises OSError after
\* BUFFER[0] is set, __exit__ releases the lock and the exception unwinds the call.
BusError ==
    /\ stack # <<>> /\ Top.fn \in PrimFns /\ Top.pc = "body"
    /\ locked
    /\ BUFFER' = [BUFFER EXCEPT ![0] = Low8(Top.address),
                                ![1] = IF Top.fn = "_write_u8" THEN Low8(Top.val) ELSE @]
    /\ locked' = FALSE
    /\ Raise("OSError")
    /\ last' = cur
    /\ UNCHANGED <<regs, op, prev, log, ncalls, cur, other, torn>>

\* Leaving the `with` block: I2CDevice.__exit__ releases the bus lock.
WithExit ==
    /\ stack # <<>> /\ Top.fn \in PrimFns /\ Top.pc = "exit"
    /\ locked' = FALSE
    /\ stack' = [stack EXCEPT ![Len(stack)].pc = "return"]
    /\ UNCHANGED <<regs, BUFFER, ret, outcome, constructed, op, prev, log, ncalls,
                   cur, other, last, torn>>

\* Mutant of U16BE: the bytes composed little-endian.
U16LE(b1, b2) == BitOr(Shl(b2, 8), b1)

\* (self._BUFFER[1] << 8) | self._BUFFER[2]
U16BE(b1, b2) == BitOr(Shl(b1, 8), b2)

\* The return expressions, evaluated on the buffer as it is now.
PrimReturn ==
    /\ stack # <<>> /\ Top.fn \in PrimFns /\ Top.pc = "return"
    /\ Return(CASE Top.fn = "_read_u8" -> <<BUFFER[1]>>
                [] Top.fn = "_read_u16BE" -> <<U16BE(BUFFER[1], BUFFER[2])>>
                [] OTHER -> <<>>)
    /\ torn' = (torn \/ (Top.fn # "_write_u8" /\ last # cur))
    /\ UNCHANGED <<regs, BUFFER, locked, op, prev, log, ncalls, cur, other, last>>

PrimNext(S) == WithEnter \/ ReadBody(S) \/ WriteBody \/ BusError \/ WithExit \/ PrimReturn

(* --------------------------- construction ------------------------------ *)
\* Mutants of IdOk: the whole byte compared with 0x21; bit 0x20 tested alone.
IdOkExact(revision) == revision = 33
IdOkBit(revision) == BitAnd(revision, 32) = 32

\* not ((revision & 0xF0) != 0x20)
IdOk(revision) == BitAnd(revision, 240) = 32

__init__ ==
    /\ stack # <<>> /\ Top.fn = "__init__"
    /\ CASE Top.pc = "start" ->
              CallFn("l128", 0, Frame("_read_u8", _VCNL4010_PRODUCTID, 0))
         [] Top.pc = "l128" ->
              IF ~IdOk(ret[1])
              THEN Raise("RuntimeError")
              ELSE CallFn("l131", ret[1], Frame("led_current_set", 0, 20))
         [] Top.pc = "l131" ->
              CallFn("l132", Top.tmp, Frame("samplerate_set", 0, SAMPLERATE_1_95))
         [] Top.pc = "l132" ->
              CallFn("l133", Top.tmp, Frame("frequency_set", 0, FREQUENCY_390K625))
         [] Top.pc = "l133" ->
              CallFn("l134", Top.tmp, Frame("_write_u8", _VCNL4010_INTCONTROL, 8))
         [] Top.pc = "l134" -> Return(<<>>)
    /\ UNCHANGED <<regs, BUFFER, locked, op, prev, log, ncalls, cur, other, last, torn>>

(* ---------------------- configuration accessors ------------------------ *)
\* Mutant of LedCurrentOf: a four-bit mask.
LedCurrentOfNibble(byte) == BitAnd(byte, 15)

\* self._read_u8(_VCNL4010_IRLED) & 0x3F
LedCurrentOf(byte) == BitAnd(byte, 63)

led_current_get ==
    /\ stack # <<>> /\ Top.fn = "led_current_get"
    /\ CASE Top.pc = "start" -> CallFn("l164", 0, Frame("_read_u8", _VCNL4010_IRLED, 0))
         [] Top.pc = "l164" -> Return(<<LedCurrentOf(ret[1])>>)
    /\ UNCHANGED <<regs, BUFFER, locked, op, prev, log, ncalls, cur, other, last, torn>>

\* Mutant of LedCurrentValid: the lower bound forgotten.
LedCurrentValidUpper(val) == val <= 20

\* assert 0 <= val <= 20
LedCurrentValid(val) == 0 <= val /\ val <= 20

led_current_set ==
    /\ stack # <<>> /\ Top.fn = "led_current_set"
    /\ CASE Top.pc = "start" ->
              IF ~LedCurrentValid(Top.val)
              THEN Raise("AssertionError")
              ELSE CallFn("l169", 0, Frame("_write_u8", _VCNL4010_IRLED, Top.val))
         [] Top.pc = "l169" -> Return(<<>>)
    /\ UNCHANGED <<regs, BUFFER, locked, op, prev, log, ncalls, cur, other, last, torn>>

\* Mutant of MilliampsOf: the register's count returned as if it were milliamps.
MilliampsOfCount(current) == current

\* self.led_current * 10
MilliampsOf(current) == current * 10

led_current_mA_get ==
    /\ stack # <<>> /\ Top.fn = "led_current_mA_get"
    /\ CASE Top.pc = "start" -> CallFn("l181", 0, Frame("led_current_get", 0, 0))
         [] Top.pc = "l181" -> Return(<<MilliampsOf(ret[1])>>)
    /\ UNCHANGED <<regs, BUFFER, locked, op, prev, log, ncalls, cur, other, last, torn>>

\* Mutant of CurrentOfMilliamps: the quotient rounded toward zero, as C's / does.
CurrentTowardZero(val) == IF val >= 0 THEN val \div 10 ELSE 0 - ((0 - val) \div 10)

\* val // 10: Python's floor division
CurrentOfMilliamps(val) == val \div 10

led_current_mA_set ==
    /\ stack # <<>> /\ Top.fn = "led_current_mA_set"
    /\ CASE Top.pc = "start" ->
              CallFn("l185", 0, Frame("led_current_set", 0, CurrentOfMilliamps(Top.val)))
         [] Top.pc = "l185" -> Return(<<>>)
    /\ UNCHANGED <<regs, BUFFER, locked, op, prev, log, ncalls, cur, other, last, torn>>

samplerate_get ==
    /\ stack # <<>> /\ Top.fn = "samplerate_get"
    /\ CASE Top.pc = "start" -> CallFn("l204", 0, Frame("_read_u8", _VCNL4010_PROXRATE, 0))
         [] Top.pc = "l204" -> Return(<<ret[1]>>)
    /\ UNCHANGED <<regs, BUFFER, locked, op, prev, log, ncalls, cur, other, last, torn>>

\* assert 0 <= val <= 7
SamplerateValid(val) == 0 <= val /\ val <= 7

samplerate_set ==
    /\ stack # <<>> /\ Top.fn = "samplerate_set"
    /\ CASE Top.pc = "start" ->
              IF ~SamplerateValid(Top.val)
              THEN Raise("AssertionError")
              ELSE CallFn("l209", 0, Frame("_write_u8", _VCNL4010_PROXRATE, Top.val))
         [] Top.pc = "l209" -> Return(<<>>)
    /\ UNCHANGED <<regs, BUFFER, locked, op, prev, log, ncalls, cur, other, last, torn>>

\* Mutant of FrequencyOf: the mask applied without the shift.
FrequencyOfUnshifted(byte) == BitAnd(byte, 3)

\* (self._read_u8(_VCNL4010_MODTIMING) >> 3) & 0x03
FrequencyOf(byte) == BitAnd(Shr(byte, 3), 3)

frequency_get ==
    /\ stack # <<>> /\ Top.fn = "frequency_get"
    /\ CASE Top.pc = "start" -> CallFn("l226", 0, Frame("_read_u8", _VCNL4010_MODTIMING, 0))
         [] Top.pc = "l226" -> Return(<<FrequencyOf(ret[1])>>)
    /\ UNCHANGED <<regs, BUFFER, locked, op, prev, log, ncalls, cur, other, last, torn>>

\* assert 0 <= val <= 3
FrequencyValid(val) == 0 <= val /\ val <= 3

\* Mutants of TimingWith: the whole byte overwritten; the old bits 3-4 not cleared.
TimingOverwrite(timing, val) == Low8(Shl(val, 3))
TimingOrOnly(timing, val) == BitOr(timing, Low8(Shl(val, 3)))

\* timing &= ~0b00011000; timing |= (val << 3) & 0xFF
TimingWith(timing, val) == BitOr(AndNot(timing, 24), Low8(Shl(val, 3)))

frequency_set ==
    /\ stack # <<>> /\ Top.fn = "frequency_set"
    /\ CASE Top.pc = "start" ->
              IF ~FrequencyValid(Top.val)
              THEN Raise("AssertionError")
              ELSE CallFn("l231", 0, Frame("_read_u8", _VCNL4010_MODTIMING, 0))
         [] Top.pc = "l231" ->
              CallFn("l234", TimingWith(ret[1], Top.val),
                     Frame("_write_u8", _VCNL4010_MODTIMING, TimingWith(ret[1], Top.val)))
         [] Top.pc = "l234" -> Return(<<>>)
    /\ UNCHANGED <<regs, BUFFER, locked, op, prev, log, ncalls, cur, other, last, torn>>

(* ----------------------------- measurement ----------------------------- *)
\* Mutant of ClearInterrupt: the mask applied without the complement.
ClearInterruptKeepTop(status) == BitAnd(status, 128)

\* status &= ~0x80
ClearInterrupt(status) == AndNot(status, 128)

\* Mutants of IsReady: any bit set ends the poll; a bit two places up is tested.
IsReadyAny(result, ready) == result # 0
IsReadyShifted(result, ready) == BitAnd(result, Shl(ready, 2)) # 0

\* if result & _VCNL4010_PROXIMITYREADY / _VCNL4010_AMBIENTREADY
IsReady(result, ready) == BitAnd(result, ready) # 0

\* The body shared by proximity and ambient, which differ in the trigger value, the
\* ready bit and the data register.
Measure(fn, trigger, ready, datareg) ==
    /\ stack # <<>> /\ Top.fn = fn
    /\ CASE Top.pc = "start" ->
              CallFn("clear_read", 0, Frame("_read_u8", _VCNL4010_INTSTAT, 0))
         [] Top.pc = "clear_read" ->
              CallFn("clear_write", ClearInterrupt(ret[1]),
                     Frame("_write_u8", _VCNL4010_INTSTAT, ClearInterrupt(ret[1])))
         [] Top.pc = "clear_write" ->
              CallFn("trigger", Top.tmp, Frame("_write_u8", _VCNL4010_COMMAND, trigger))
         [] Top.pc = "trigger" ->
              CallFn("poll", Top.tmp, Frame("_read_u8", _VCNL4010_COMMAND, 0))
         [] Top.pc = "poll" ->
              IF IsReady(ret[1], ready)
              THEN CallFn("data", ret[1], Frame("_read_u16BE", datareg, 0))
              ELSE CallFn("poll", ret[1], Frame("_read_u8", _VCNL4010_COMMAND, 0))
         [] Top.pc = "data" -> Return(ret)
    /\ UNCHANGED <<regs, BUFFER, locked, op, prev, log, ncalls, cur, other, last, torn>>

proximity ==
    Measure("proximity", _VCNL4010_MEASUREPROXIMITY, _VCNL4010_PROXIMITYREADY,
            _VCNL4010_PROXIMITYDATA)

ambient ==
    Measure("ambient", _VCNL4010_MEASUREAMBIENT, _VCNL4010_AMBIENTREADY,
            _VCNL4010_AMBIENTDATA)

\* A Python float, as mantissa m and binary exponent e: the number m * 2^e.
\* Mutant of _VCNL4010_AMBIENT_LUX_SCALE: half a lux per count.
LuxScaleHalf == [m |-> 1, e |-> -1]

\* _VCNL4010_AMBIENT_LUX_SCALE = 0.25
_VCNL4010_AMBIENT_LUX_SCALE == [m |-> 1, e |-> -2]

\* int * float.  The product of a 16-bit integer and a one-bit mantissa has at most 16
\* significant bits, which the 53-bit mantissa of a float holds without rounding.
IntTimesFloat(n, f) == [m |-> n * f.m, e |-> f.e]

ambient_lux ==
    /\ stack # <<>> /\ Top.fn = "ambient_lux"
    /\ CASE Top.pc = "start" -> CallFn("l285", 0, Frame("ambient", 0, 0))
         [] Top.pc = "l285" ->
              Return(<<IntTimesFloat(ret[1], _VCNL4010_AMBIENT_LUX_SCALE)>>)
    /\ UNCHANGED <<regs, BUFFER, locked, op, prev, log, ncalls, cur, other, last, torn>>

(* ------------------------------ the caller ----------------------------- *)
Setters == {"led_current_set", "led_current_mA_set", "samplerate_set", "frequency_set"}

\* The caller makes one public call at a time, at most n in all: the constructor
\* first, an accessor of the constructed object afterwards.
InvokeWithin(n, name, arg) ==
    /\ stack = <<>>
    /\ ncalls < n
    /\ ncalls' = ncalls + 1
    /\ IF name = "__init__" THEN constructed = "no" ELSE constructed = "yes"
    /\ stack' = <<Frame(name, 0, arg)>>
    /\ op' = [name |-> name, arg |-> arg]
    /\ prev' = IF outcome = "returned" /\ op.name \in Setters
               THEN <<op.name, op.arg>> ELSE <<>>
    /\ outcome' = "none"
    /\ ret' = <<>>
    /\ log' = <<>>
    /\ torn' = FALSE
    /\ UNCHANGED <<regs, BUFFER, locked, constructed, cur, other, last>>

Invoke(name, arg) == InvokeWithin(MaxCalls, name, arg)

\* The device of a second VCNL4010 object, behind the same bus (and so the same bus
\* lock) as the first.
SecondDevice ==
    [a \in RegAddrs |->
        CASE a = _VCNL4010_PRODUCTID -> 33
          [] a = _VCNL4010_PROXRATE -> 5
          [] a = _VCNL4010_IRLED -> 9
          [] a = _VCNL4010_AMBIENTDATA -> 170
          [] a = _VCNL4010_AMBIENTDATA + 1 -> 187
          [] a = _VCNL4010_PROXIMITYDATA -> 204
          [] a = _VCNL4010_PROXIMITYDATA + 1 -> 221
          [] OTHER -> 0]

\* A second caller that has not called anything yet, with the second object and its
\* device should it use one of its own.
Idle ==
    [stack |-> <<>>, ret |-> <<>>, outcome |-> "none", op |-> [name |-> "none", arg |-> 0],
     prev |-> <<>>, log |-> <<>>, torn |-> FALSE,
     regs |-> SecondDevice, constructed |-> "no", ncalls |-> 0]

\* The scheduler suspends the running caller between two steps and resumes the other
\* caller, which uses the same VCNL4010 object: the call stack and the results are
\* the caller's own, the object, the device, the buffer and the bus lock are shared.
Switch ==
    /\ cur' = 3 - cur
    /\ stack' = other.stack
    /\ ret' = other.ret
    /\ outcome' = other.outcome
    /\ op' = other.op
    /\ prev' = other.prev
    /\ log' = other.log
    /\ torn' = other.torn
    /\ other' = [other EXCEPT !.stack = stack, !.ret = ret, !.outcome = outcome,
                              !.op = op, !.prev = prev, !.log = log, !.torn = torn]
    /\ UNCHANGED <<regs, BUFFER, locked, constructed, ncalls, last>>

\* The same when each caller uses a VCNL4010 object of its own: the object and its
\* device change with the caller; _BUFFER is an attribute of the class, and stays.
SwitchInstance ==
    /\ cur' = 3 - cur
    /\ stack' = other.stack
    /\ ret' = other.ret
    /\ outcome' = other.outcome
    /\ op' = other.op
    /\ prev' = other.prev
    /\ log' = other.log
    /\ torn' = other.torn
    /\ regs' = other.regs
    /\ constructed' = other.constructed
    /\ ncalls' = other.ncalls
    /\ other' = [stack |-> stack, ret |-> ret, outcome |-> outcome, op |-> op,
                 prev |-> prev, log |-> log, torn |-> torn,
                 regs |-> regs, constructed |-> constructed, ncalls |-> ncalls]
    /\ UNCHANGED <<BUFFER, locked, last>>

\* The state before construction, the device holding the given bytes.
InitWith(ids, rates, leds, timings, stats, datas) ==
    /\ \E id \in ids, rate \in rates, led \in leds, t \in timings, s \in stats, d \in datas :
          regs = [a \in RegAddrs |->
                    CASE a = _VCNL4010_PRODUCTID -> id
                      [] a = _VCNL4010_PROXRATE -> rate
                      [] a = _VCNL4010_IRLED -> led
                      [] a = _VCNL4010_MODTIMING -> t
                      [] a = _VCNL4010_INTSTAT -> s
                      [] a = _VCNL4010_AMBIENTDATA -> d[1]
                      [] a = _VCNL4010_AMBIENTDATA + 1 -> d[2]
                      [] a = _VCNL4010_PROXIMITYDATA -> d[2]
                      [] a = _VCNL4010_PROXIMITYDATA + 1 -> d[1]
                      [] OTHER -> 0]
    /\ BUFFER = [i \in 0..2 |-> 0]
    /\ locked = FALSE
    /\ stack = <<>>
    /\ ret = <<>>
    /\ outcome = "none"
    /\ constructed = "no"
    /\ op = [name |-> "none", arg |-> 0]
    /\ prev = <<>>
    /\ log = <<>>
    /\ ncalls = 0
    /\ cur = 1
    /\ other = Idle
    /\ last = 0
    /\ torn = FALSE

(* --------------------- construction: SpecInit -------------------------- *)
InitInit ==
    \/ InitWith(Byte, {0, 7}, {0, 63}, {0, 255}, {0}, {<<1, 2>>})
    \/ InitWith({33}, {0, 7}, {0, 63}, Byte, {0}, {<<1, 2>>})

NextInit ==
    \/ Invoke("__init__", 0)
    \/ __init__
    \/ led_current_set
    \/ samplerate_set
    \/ frequency_set
    \/ PrimNext({0})

SpecInit == InitInit /\ [][NextInit]_vars

(* ----------------------- reading the bus history ----------------------- *)
IsRead(e, fn, address) == e.fn = fn /\ e.address = address
IsWrite(e, address, v) == e.fn = "_write_u8" /\ e.address = address /\ e.data = <<v>>

\* The upper nibble of a byte, and a byte with bits 3-4 set to v, by arithmetic.
HighNibble(b) == b \div 16
WithBits34(b, v) == b - ((b \div 8) % 4) * 8 + v * 8

(* C4: construction succeeds if and only if the upper nibble of the byte read from
   PRODUCTID is 2: a construction that ended without a bus error returned exactly
   when the nibble is 2, and raised the RuntimeError otherwise. *)
C4_IdentityCheck ==
    op.name = "__init__" =>
        /\ (constructed = "yes") <=> (outcome = "returned")
        /\ constructed = "yes" => HighNibble(regs[_VCNL4010_PRODUCTID]) = 2
        /\ outcome = "RuntimeError" => HighNibble(regs[_VCNL4010_PRODUCTID]) # 2
        /\ outcome \notin {"none", "OSError"} =>
              /\ outcome \in {"returned", "RuntimeError"}
              /\ (outcome = "returned") <=> (HighNibble(regs[_VCNL4010_PRODUCTID]) = 2)

\* Product id 0x21 was accepted.
C4_Witness ==
    /\ op.name = "__init__" /\ constructed = "yes"
    /\ regs[_VCNL4010_PRODUCTID] = 33

(* C5: when the identity check fails, PRODUCTID was read exactly once, nothing was
   written, and no step of the construction changed any device register. *)
C5_FailedInitTouchesNothing ==
    /\ [](outcome = "RuntimeError" =>
            /\ op.name = "__init__" /\ constructed = "failed" /\ ~locked
            /\ Len(log) = 1
            /\ IsRead(log[1], "_read_u8", _VCNL4010_PRODUCTID)
            /\ log[1].data[1] = regs[_VCNL4010_PRODUCTID])
    /\ [][(op.name = "__init__" /\ HighNibble(regs[_VCNL4010_PRODUCTID]) # 2)
            => regs' = regs]_vars

\* Product id 0x31 was rejected and IRLED still holds what it held.
C5_Witness ==
    /\ outcome = "RuntimeError"
    /\ regs[_VCNL4010_PRODUCTID] = 49
    /\ regs[_VCNL4010_IRLED] = 63 /\ regs[_VCNL4010_PROXRATE] = 7

\* The bus history of a construction is a prefix of: read PRODUCTID (upper nibble 2
\* before anything is written), write IRLED 20, write PROXRATE 0, read MODTIMING,
\* write MODTIMING with bits 3-4 cleared, write INTCONTROL 0x08.
InitLogOk ==
    \A i \in 1..Len(log) :
        CASE i = 1 -> IsRead(log[1], "_read_u8", _VCNL4010_PRODUCTID)
          [] i = 2 -> /\ IsWrite(log[2], _VCNL4010_IRLED, 20)
                      /\ HighNibble(log[1].data[1]) = 2
          [] i = 3 -> IsWrite(log[3], _VCNL4010_PROXRATE, 0)
          [] i = 4 -> IsRead(log[4], "_read_u8", _VCNL4010_MODTIMING)
          [] i = 5 -> IsWrite(log[5], _VCNL4010_MODTIMING, WithBits34(log[4].data[1], 0))
          [] i = 6 -> IsWrite(log[6], _VCNL4010_INTCONTROL, 8)
          [] OTHER -> FALSE

(* C6: after a successful construction IRLED = 20, PROXRATE = 0, INTCONTROL = 0x08 and
   MODTIMING has bits 3-4 = 0; the six transactions were issued in the order LED
   current, sample rate, modulator frequency, interrupt control, all after the
   identity check; and the only change the construction makes to MODTIMING is to
   clear bits 3-4. *)
C6_InitDefaults ==
    /\ [](op.name = "__init__" =>
            /\ InitLogOk
            /\ constructed = "yes" =>
                  /\ Len(log) = 6
                  /\ regs[_VCNL4010_IRLED] = 20
                  /\ regs[_VCNL4010_PROXRATE] = 0
                  /\ regs[_VCNL4010_INTCONTROL] = 8
                  /\ (regs[_VCNL4010_MODTIMING] \div 8) % 4 = 0)
    /\ [][op.name = "__init__" =>
            regs'[_VCNL4010_MODTIMING]
                \in {regs[_VCNL4010_MODTIMING], WithBits34(regs[_VCNL4010_MODTIMING], 0)}]_vars

\* Constructed over a device that held IRLED = 63, PROXRATE = 7, MODTIMING = 0xFF.
C6_Witness ==
    /\ op.name = "__init__" /\ constructed = "yes"
    /\ log[4].data[1] = 255
    /\ regs[_VCNL4010_MODTIMING] = 231
    /\ regs[_VCNL4010_IRLED] = 20 /\ regs[_VCNL4010_PROXRATE] = 0

(* ------------------ the modulator frequency: SpecFreq ------------------ *)
FreqArgs == -1..4

InitFreq == InitWith({33}, {0}, {0}, Byte, {0}, {<<1, 2>>})

NextFreq ==
    \/ Invoke("__init__", 0)
    \/ \E v \in FreqArgs : Invoke("frequency_set", v)
    \/ Invoke("frequency_get", 0)
    \/ __init__
    \/ led_current_set
    \/ samplerate_set
    \/ frequency_set
    \/ frequency_get
    \/ PrimNext({0})

SpecFreq == InitFreq /\ [][NextFreq]_vars

(* -------------- LED current and sample rate: SpecRoundTrip ------------- *)
InitRoundTrip == InitWith({33}, {0}, {0}, {0, 255}, {0}, {<<1, 2>>})

NextRoundTrip ==
    \/ Invoke("__init__", 0)
    \/ \E v \in 0..20 : Invoke("led_current_set", v)
    \/ Invoke("led_current_get", 0)
    \/ \E v \in 0..7 : Invoke("samplerate_set", v)
    \/ Invoke("samplerate_get", 0)
    \/ __init__
    \/ led_current_set
    \/ led_current_get
    \/ samplerate_set
    \/ samplerate_get
    \/ frequency_set
    \/ PrimNext({0})

SpecRoundTrip == InitRoundTrip /\ [][NextRoundTrip]_vars

(* --------------------- setter arguments: SpecConfig -------------------- *)
\* Arguments in range, just outside it, and far outside it on both sides, among them
\* integers whose low byte (or whose shift by 3) would fit the register.
LedArgs == (-2..22) \cup {-256, 256, 276}
MilliampArgs == {-2560, -10, -1, 0, 9, 123, 209, 210, 2560, 2660}
RateArgs == (-2..9) \cup {-256, 256, 263}
AnyFreqArgs == (-2..5) \cup {-32, 32, 33}

InitConfig == InitWith({33}, {7}, {63}, {0, 255}, {0}, {<<1, 2>>})

NextConfig ==
    \/ Invoke("__init__", 0)
    \/ \E v \in LedArgs : Invoke("led_current_set", v)
    \/ \E v \in MilliampArgs : Invoke("led_current_mA_set", v)
    \/ \E v \in RateArgs : Invoke("samplerate_set", v)
    \/ \E v \in AnyFreqArgs : Invoke("frequency_set", v)
    \/ __init__
    \/ led_current_set
    \/ led_current_mA_set
    \/ samplerate_set
    \/ frequency_set
    \/ PrimNext({0})

SpecConfig == InitConfig /\ [][NextConfig]_vars

(* ------------------ measurements: SpecMeasure, SpecClear --------------- *)
DataPairs == {<<1, 2>>, <<255, 0>>, <<128, 255>>}

InitMeasure == InitWith({33}, {0}, {0}, {0}, {129}, DataPairs)

\* The constructor and n - 1 measurements over a device that presents the bytes S.
MeasureNext(n, S) ==
    \/ InvokeWithin(n, "__init__", 0)
    \/ InvokeWithin(n, "proximity", 0)
    \/ InvokeWithin(n, "ambient", 0)
    \/ __init__
    \/ led_current_set
    \/ samplerate_set
    \/ frequency_set
    \/ proximity
    \/ ambient
    \/ PrimNext(S)

\* One measurement, the device presenting any byte of CmdBytes at each poll.
SpecMeasure == InitMeasure /\ [][MeasureNext(MaxCalls - 1, CmdBytes)]_vars

\* Every interrupt status byte, a device whose measurements are ready at the first poll.
InitClear == InitWith({33}, {0}, {0}, {0}, Byte, {<<1, 2>>})

SpecClear == InitClear /\ [][MeasureNext(MaxCalls, {96})]_vars

(* C7: for every byte t read from MODTIMING and every v in 0..3, the frequency setter
   writes MODTIMING once, with t's bits 3-4 replaced by v and the other six bits of t,
   the register then holds that byte, and a frequency getter called next returns v. *)
C7_FrequencyBits ==
    /\ (op.name = "frequency_set" /\ op.arg \in 0..3) =>
          /\ \A i \in 1..Len(log) :
                CASE i = 1 -> IsRead(log[1], "_read_u8", _VCNL4010_MODTIMING)
                  [] i = 2 -> IsWrite(log[2], _VCNL4010_MODTIMING,
                                      WithBits34(log[1].data[1], op.arg))
                  [] OTHER -> FALSE
          /\ outcome = "returned" =>
                /\ Len(log) = 2
                /\ regs[_VCNL4010_MODTIMING] = WithBits34(log[1].data[1], op.arg)
    /\ (op.name = "frequency_get" /\ outcome = "returned"
          /\ prev # <<>> /\ prev[1] = "frequency_set") => ret = <<prev[2]>>

\* MODTIMING held 0b11100111, frequency = 2 left 0b11110111 and the getter returned 2.
C7_Witness ==
    /\ op.name = "frequency_get" /\ outcome = "returned"
    /\ prev = <<"frequency_set", 2>> /\ ret = <<2>>
    /\ regs[_VCNL4010_MODTIMING] = 247

TriggerOf(name) ==
    IF name = "proximity" THEN _VCNL4010_MEASUREPROXIMITY ELSE _VCNL4010_MEASUREAMBIENT
ReadyBitOf(name) ==
    IF name = "proximity" THEN _VCNL4010_PROXIMITYREADY ELSE _VCNL4010_AMBIENTREADY
DataRegOf(name) ==
    IF name = "proximity" THEN _VCNL4010_PROXIMITYDATA ELSE _VCNL4010_AMBIENTDATA
Measurements == {"proximity", "ambient"}

\* Byte c has the bit set (bit is a power of two), by arithmetic.
HasBit(c, bit) == (c \div bit) % 2 = 1

(* C8: in a proximity or ambient read, the first two transactions read INTSTAT and
   write back the byte read with bit 0x80 cleared and the other seven bits kept
   (s mod 128), and the trigger is written after them. *)
C8_ClearInterrupt ==
    op.name \in Measurements =>
        /\ Len(log) >= 1 => IsRead(log[1], "_read_u8", _VCNL4010_INTSTAT)
        /\ Len(log) >= 2 =>
              /\ IsWrite(log[2], _VCNL4010_INTSTAT, log[1].data[1] % 128)
              /\ regs[_VCNL4010_INTSTAT] = log[1].data[1] % 128
        /\ Len(log) >= 3 => IsWrite(log[3], _VCNL4010_COMMAND, TriggerOf(op.name))
        /\ outcome = "returned" => Len(log) >= 3

\* An ambient read found INTSTAT = 0xFF and wrote back 0x7F before the trigger.
C8_Witness ==
    /\ op.name = "ambient" /\ Len(log) >= 3
    /\ log[1].data[1] = 255 /\ log[2].data = <<127>>

(* C9: a led_current getter called right after led_current = v returned gives v,
   for v in 0..20, and a samplerate getter right after samplerate = v gives v, for
   v in 0..7. *)
C9_SetGetRoundTrip ==
    /\ (op.name = "led_current_get" /\ outcome = "returned"
          /\ prev # <<>> /\ prev[1] = "led_current_set") => ret = <<prev[2]>>
    /\ (op.name = "samplerate_get" /\ outcome = "returned"
          /\ prev # <<>> /\ prev[1] = "samplerate_set") => ret = <<prev[2]>>

\* led_current = 17 was read back as 17.
C9_Witness ==
    /\ op.name = "led_current_get" /\ outcome = "returned"
    /\ prev = <<"led_current_set", 17>> /\ ret = <<17>>

\* The argument of the setter call is outside the range the setter accepts; for the
\* milliamp setter, outside 0..209, the values whose tenth (rounded down) is in 0..20.
OutOfRange ==
    CASE op.name = "led_current_set" -> op.arg < 0 \/ op.arg > 20
      [] op.name = "led_current_mA_set" -> op.arg < 0 \/ op.arg > 209
      [] op.name = "samplerate_set" -> op.arg < 0 \/ op.arg > 7
      [] op.name = "frequency_set" -> op.arg < 0 \/ op.arg > 3
      [] OTHER -> FALSE

(* C10: a setter called with an out-of-range value issues no bus transaction, never
   takes the bus lock and ends with the AssertionError; no value outside 0..20 is
   written to IRLED and none outside 0..7 to PROXRATE. *)
C10_RangeChecked ==
    /\ OutOfRange =>
          /\ log = <<>> /\ ~locked
          /\ outcome \in {"none", "AssertionError"}
          /\ stack = <<>> => outcome = "AssertionError"
    /\ (op.name \in Setters /\ outcome = "AssertionError") => OutOfRange
    /\ \A i \in 1..Len(log) :
          /\ (log[i].fn = "_write_u8" /\ log[i].address = _VCNL4010_IRLED)
                => log[i].data[1] \in 0..20
          /\ (log[i].fn = "_write_u8" /\ log[i].address = _VCNL4010_PROXRATE)
                => log[i].data[1] \in 0..7
    /\ constructed = "yes" =>
          /\ regs[_VCNL4010_IRLED] \in 0..20
          /\ regs[_VCNL4010_PROXRATE] \in 0..7

\* led_current_mA = 210 was rejected after led_current = 12 had been accepted.
C10_Witness ==
    /\ op = [name |-> "led_current_mA_set", arg |-> 210]
    /\ outcome = "AssertionError" /\ log = <<>>
    /\ prev = <<"led_current_set", 12>> /\ regs[_VCNL4010_IRLED] = 12

\* The positions in the bus history of the reads of COMMAND.
Polls == {i \in 1..Len(log) : IsRead(log[i], "_read_u8", _VCNL4010_COMMAND)}

(* C1: in a measurement whose history is complete, a read of COMMAND with the
   matching ready bit set is the last read of COMMAND; when the measurement returns,
   the k reads of COMMAND are transactions 4..3+k, only the k-th has the ready bit,
   and the value returned is 256 * b0 + b1 for the two bytes b0, b1 the device holds
   in the matching data register, a value in 0..65535. *)
C1_PollThenCompose ==
    (op.name \in Measurements /\ Len(log) < MaxLog) =>
        /\ \A i \in Polls : HasBit(log[i].data[1], ReadyBitOf(op.name))
                                => \A j \in Polls : j <= i
        /\ outcome = "returned" =>
              LET k == Cardinality(Polls)
                  n == Len(log)
                  dr == DataRegOf(op.name)
              IN  /\ k >= 1 /\ n = 4 + k /\ Polls = 4..(3 + k)
                  /\ \A i \in 4..(2 + k) : ~HasBit(log[i].data[1], ReadyBitOf(op.name))
                  /\ HasBit(log[3 + k].data[1], ReadyBitOf(op.name))
                  /\ IsRead(log[n], "_read_u16BE", dr)
                  /\ log[n].data = <<regs[dr], regs[dr + 1]>>
                  /\ ret = <<256 * regs[dr] + regs[dr + 1]>>
                  /\ ret[1] \in 0..65535

\* An ambient read polled three times, the first poll showing only the proximity
\* ready bit, and returned 0x0102 for the bytes 0x01, 0x02.
C1_Witness ==
    /\ op.name = "ambient" /\ outcome = "returned"
    /\ Len(log) = 7 /\ log[4].data[1] = 32
    /\ log[7].data = <<1, 2>> /\ ret = <<258>>

(* C2: the bus history of a measurement is always a prefix of: read INTSTAT, write
   INTSTAT, write the trigger to COMMAND, reads of COMMAND each but the last without
   the ready bit, one 16-bit read of the data register right after a read of COMMAND
   that had the ready bit; a measurement that returned ended with the data read. *)
C2_MeasureOrder ==
    op.name \in Measurements =>
        /\ \A i \in 1..Len(log) :
              CASE i = 1 -> IsRead(log[1], "_read_u8", _VCNL4010_INTSTAT)
                [] i = 2 -> log[2].fn = "_write_u8" /\ log[2].address = _VCNL4010_INTSTAT
                [] i = 3 -> IsWrite(log[3], _VCNL4010_COMMAND, TriggerOf(op.name))
                [] i = 4 -> IsRead(log[4], "_read_u8", _VCNL4010_COMMAND)
                [] OTHER ->
                     /\ IsRead(log[i - 1], "_read_u8", _VCNL4010_COMMAND)
                     /\ IF HasBit(log[i - 1].data[1], ReadyBitOf(op.name))
                        THEN IsRead(log[i], "_read_u16BE", DataRegOf(op.name))
                        ELSE IsRead(log[i], "_read_u8", _VCNL4010_COMMAND)
        /\ (outcome = "returned" /\ Len(log) < MaxLog) =>
              /\ Len(log) >= 5
              /\ IsRead(log[Len(log)], "_read_u16BE", DataRegOf(op.name))

\* A proximity read returned after two polls.
C2_Witness ==
    /\ op.name = "proximity" /\ outcome = "returned"
    /\ Len(log) = 6 /\ ~HasBit(log[4].data[1], 32) /\ HasBit(log[5].data[1], 32)

(* ---------------- a measurement on a working bus: SpecLive ------------- *)
\* The steps of the driver when no bus transaction fails.
DriverStep ==
    \/ __init__
    \/ led_current_set
    \/ samplerate_set
    \/ frequency_set
    \/ proximity
    \/ ambient
    \/ WithEnter
    \/ ReadBody(CmdBytes)
    \/ WriteBody
    \/ WithExit
    \/ PrimReturn

NextLive ==
    \/ InvokeWithin(MaxCalls - 1, "__init__", 0)
    \/ InvokeWithin(MaxCalls - 1, "proximity", 0)
    \/ InvokeWithin(MaxCalls - 1, "ambient", 0)
    \/ DriverStep

\* A poll at which the device presents the ready bit of the measurement in progress.
ReadyPoll ==
    /\ op.name \in Measurements
    /\ stack # <<>> /\ Low8(Top.address) = _VCNL4010_COMMAND
    /\ ReadBody({c \in CmdBytes : HasBit(c, ReadyBitOf(op.name))})

InitLive == InitWith({33}, {0}, {0}, {0}, {129}, {<<1, 2>>})

\* The driver's code runs on (it blocks the caller, nothing preempts it for ever), and
\* a device polled again and again presents the ready bit at some poll.
SpecLive ==
    InitLive /\ [][NextLive]_vars /\ WF_vars(DriverStep) /\ SF_vars(ReadyPoll)

(* C3: on a bus whose transactions succeed, a measurement returns once the device
   presents the ready bit; the call ends in no other way than by returning after
   COMMAND showed the matching ready bit, and each poll that does not show it is
   followed by another read of COMMAND, however many polls went before. *)
C3_NoTimeout ==
    /\ (op.name \in Measurements /\ outcome = "none") ~> (outcome = "returned")
    /\ [][(op.name \in Measurements /\ outcome = "none" /\ outcome' # "none")
            => /\ outcome' = "returned"
               /\ HasBit(regs[_VCNL4010_COMMAND], ReadyBitOf(op.name))]_vars
    /\ [][(/\ stack # <<>> /\ Top.fn \in Measurements /\ Top.pc = "poll"
           /\ ~HasBit(ret[1], ReadyBitOf(Top.fn)))
            => /\ outcome' = "none"
               /\ Len(stack') = 2
               /\ stack'[2] = Frame("_read_u8", _VCNL4010_COMMAND, 0)]_vars

\* A proximity read still polling after more polls than the history holds, none of
\* which showed the ready bit.
C3_Witness ==
    /\ op.name = "proximity" /\ outcome = "none"
    /\ Len(log) = MaxLog
    /\ \A i \in 4..MaxLog : /\ IsRead(log[i], "_read_u8", _VCNL4010_COMMAND)
                            /\ ~HasBit(log[i].data[1], 32)
    /\ At("proximity", "poll") /\ ~HasBit(ret[1], 32)

(* ------------------- the LED current in mA: SpecMilliamp --------------- *)
MilliampRoundArgs == (-11..11) \cup (118..131) \cup (195..212) \cup {-2560, 2560}
CountArgs == -2..22

InitMilliamp == InitWith({33}, {0}, {0, 63}, {0}, {0}, {<<1, 2>>})

NextMilliamp ==
    \/ Invoke("__init__", 0)
    \/ \E v \in MilliampRoundArgs : Invoke("led_current_mA_set", v)
    \/ \E v \in CountArgs : Invoke("led_current_set", v)
    \/ Invoke("led_current_get", 0)
    \/ Invoke("led_current_mA_get", 0)
    \/ __init__
    \/ led_current_get
    \/ led_current_set
    \/ led_current_mA_get
    \/ led_current_mA_set
    \/ samplerate_set
    \/ frequency_set
    \/ PrimNext({0})

SpecMilliamp == InitMilliamp /\ [][NextMilliamp]_vars

(* C11: the led_current_mA getter returns ten times the count that IRLED holds (the
   value led_current returns); after led_current_mA = x was accepted, led_current
   reads the q with 10q <= x < 10q + 10 and led_current_mA reads x - (x mod 10), so
   120..129 all read back 12 and 120. *)
C11_MilliampQuantized ==
    /\ (op.name = "led_current_mA_get" /\ outcome = "returned") =>
          /\ Len(log) = 1 /\ IsRead(log[1], "_read_u8", _VCNL4010_IRLED)
          /\ ret = <<10 * (regs[_VCNL4010_IRLED] % 64)>>
    /\ (outcome = "returned" /\ prev # <<>> /\ prev[1] = "led_current_mA_set") =>
          /\ op.name = "led_current_get" =>
                /\ 10 * ret[1] <= prev[2] /\ prev[2] < 10 * ret[1] + 10
                /\ prev[2] \in 120..129 => ret = <<12>>
          /\ op.name = "led_current_mA_get" =>
                /\ ret = <<prev[2] - (prev[2] % 10)>>
                /\ prev[2] \in 120..129 => ret = <<120>>

\* led_current_mA = 129 was accepted and led_current_mA then read 120.
C11_Witness ==
    /\ op.name = "led_current_mA_get" /\ outcome = "returned"
    /\ prev = <<"led_current_mA_set", 129>> /\ ret = <<120>>
    /\ regs[_VCNL4010_IRLED] = 12

\* The quotient of x by 10 rounded down, and rounded toward zero, by their defining
\* inequalities.
Quotients == -300..300
FloorTenth(x) == CHOOSE q \in Quotients : 10 * q <= x /\ x < 10 * q + 10
TruncTenth(x) ==
    CHOOSE q \in Quotients : IF x >= 0 THEN 10 * q <= x /\ x < 10 * q + 10
                                      ELSE 10 * q - 10 < x /\ x <= 10 * q

\* What the running call does is what led_current = q does: for q in 0..20 one write
\* of q to IRLED and a return, for any other q an AssertionError and no transaction.
ActsAsLedCurrent(q) ==
    IF q \in 0..20
    THEN /\ outcome # "AssertionError"
         /\ Len(log) <= 1
         /\ Len(log) = 1 => IsWrite(log[1], _VCNL4010_IRLED, q)
         /\ outcome = "returned" => Len(log) = 1 /\ regs[_VCNL4010_IRLED] = q
    ELSE /\ outcome \in {"none", "AssertionError"}
         /\ log = <<>>

(* C12 as stated: for every integer x, led_current_mA = x has the outcome of
   led_current = x/10 truncated toward zero, for negative x as well. *)
C12_TowardZero ==
    /\ op.name = "led_current_set" => ActsAsLedCurrent(op.arg)
    /\ op.name = "led_current_mA_set" => ActsAsLedCurrent(TruncTenth(op.arg))

(* C12, amended: the division rounds down (toward minus infinity): for every integer
   x, led_current_mA = x has the outcome of led_current = floor(x / 10). For x >= 0
   that is truncation (123 acts as 120); every negative x, -9..-1 included, is
   rejected with an AssertionError and nothing is written. *)
C12_FloorDivision ==
    /\ op.name = "led_current_set" => ActsAsLedCurrent(op.arg)
    /\ op.name = "led_current_mA_set" =>
          /\ ActsAsLedCurrent(FloorTenth(op.arg))
          /\ op.arg >= 0 => FloorTenth(op.arg) = TruncTenth(op.arg)
          /\ op.arg < 0 => outcome # "returned" /\ log = <<>>

\* led_current_mA = -1 was rejected, IRLED keeping the constructor's 20.
C12_Witness ==
    /\ op = [name |-> "led_current_mA_set", arg |-> -1]
    /\ outcome = "AssertionError" /\ log = <<>>
    /\ TruncTenth(-1) = 0 /\ FloorTenth(-1) = -1
    /\ regs[_VCNL4010_IRLED] = 20

(* --------------------- failing transactions: SpecBus ------------------- *)
InitBus == InitWith({33}, {0}, {0}, {0, 231}, {129}, {<<1, 2>>})

NextBus ==
    \/ Invoke("__init__", 0)
    \/ \E v \in {1, 2} : Invoke("frequency_set", v)
    \/ Invoke("frequency_get", 0)
    \/ Invoke("proximity", 0)
    \/ Invoke("ambient", 0)
    \/ __init__
    \/ led_current_set
    \/ samplerate_set
    \/ frequency_get
    \/ frequency_set
    \/ proximity
    \/ ambient
    \/ PrimNext({0, 32, 64})

SpecBus == InitBus /\ [][NextBus]_vars

\* A primitive is about to run its transaction.
InTransaction == stack # <<>> /\ Top.fn \in PrimFns /\ Top.pc = "body"

(* C13: a transaction either succeeds or ends the whole public call at once with the
   bus error (OSError), the lock released and no register changed: it is not tried
   again. After the error nothing more goes over the bus. A frequency setter writes
   nothing until its read of MODTIMING has succeeded, and a measurement that ends
   with a bus error has read no data register. *)
C13_BusErrorSurfaces ==
    /\ [][InTransaction =>
            \/ /\ Len(stack') = Len(stack)
               /\ stack'[Len(stack')].pc = "exit"
               /\ outcome' = "none"
            \/ /\ stack' = <<>>
               /\ outcome' = "OSError"
               /\ ~locked'
               /\ regs' = regs /\ log' = log]_vars
    /\ [](outcome = "OSError" => stack = <<>> /\ ~locked)
    /\ [][outcome = "OSError" =>
            /\ regs' = regs /\ BUFFER' = BUFFER /\ ~locked'
            /\ log' \in {log, <<>>}]_vars
    /\ [][(op.name = "frequency_set" /\ log = <<>>) => regs' = regs]_vars
    /\ [](op.name \in Measurements /\ outcome = "OSError" =>
            \A i \in 1..Len(log) : log[i].fn # "_read_u16BE")

\* A proximity read whose second poll of COMMAND failed: the first poll is the last
\* transaction of its history and the data register was never addressed.
C13_Witness ==
    /\ op.name = "proximity" /\ outcome = "OSError" /\ stack = <<>>
    /\ Len(log) = 4
    /\ IsRead(log[4], "_read_u8", _VCNL4010_COMMAND) /\ ~HasBit(log[4].data[1], 32)
    /\ BUFFER[0] = _VCNL4010_COMMAND

(* ------------------------ ambient_lux: SpecLux ------------------------- *)
\* Raw values with either byte at an extreme and the other byte any byte.
LuxData ==
    {<<b0, b1>> : b0 \in Byte, b1 \in {0, 255}} \cup {<<b0, b1>> : b0 \in {0, 255}, b1 \in Byte}

InitLux == InitWith({33}, {0}, {0}, {0}, {0}, LuxData)

NextLux ==
    \/ InvokeWithin(MaxCalls - 1, "__init__", 0)
    \/ InvokeWithin(MaxCalls - 1, "ambient_lux", 0)
    \/ __init__
    \/ led_current_set
    \/ samplerate_set
    \/ frequency_set
    \/ ambient
    \/ ambient_lux
    \/ PrimNext({0, 64})

SpecLux == InitLux /\ [][NextLux]_vars

\* Four times the float f is the integer n.
FourTimesIs(f, n) ==
    IF f.e >= -2 THEN f.m * 2^(f.e + 2) = n ELSE f.m = n * 2^(0 - f.e - 2)

(* C14: ambient_lux runs one ambient measurement cycle (one clear of INTSTAT, one
   trigger 0x10, one run of polls, one read of AMBIENTDATA) and returns raw * 0.25
   exactly: four times the value returned is the raw 16-bit value 256 * b0 + b1 for
   the bytes b0, b1 of the data read, for every raw value (0 gives 0, 65535 gives
   16383.75 = 65535 / 4). *)
C14_LuxIsQuarterRaw ==
    (op.name = "ambient_lux" /\ Len(log) < MaxLog) =>
        /\ \A i \in 1..Len(log) :
              CASE i = 1 -> IsRead(log[1], "_read_u8", _VCNL4010_INTSTAT)
                [] i = 2 -> IsWrite(log[2], _VCNL4010_INTSTAT, log[1].data[1] % 128)
                [] i = 3 -> IsWrite(log[3], _VCNL4010_COMMAND, _VCNL4010_MEASUREAMBIENT)
                [] i = 4 -> IsRead(log[4], "_read_u8", _VCNL4010_COMMAND)
                [] OTHER ->
                     /\ IsRead(log[i - 1], "_read_u8", _VCNL4010_COMMAND)
                     /\ IF HasBit(log[i - 1].data[1], _VCNL4010_AMBIENTREADY)
                        THEN IsRead(log[i], "_read_u16BE", _VCNL4010_AMBIENTDATA)
                        ELSE IsRead(log[i], "_read_u8", _VCNL4010_COMMAND)
        /\ outcome = "returned" =>
              LET n == Len(log)
                  raw == 256 * log[n].data[1] + log[n].data[2]
              IN  /\ n >= 5
                  /\ IsRead(log[n], "_read_u16BE", _VCNL4010_AMBIENTDATA)
                  /\ Cardinality({i \in 1..n : log[i].fn = "_read_u16BE"}) = 1
                  /\ Cardinality({i \in 1..n : log[i].fn = "_write_u8"}) = 2
                  /\ raw = 256 * regs[_VCNL4010_AMBIENTDATA] + regs[_VCNL4010_AMBIENTDATA + 1]
                  /\ raw \in 0..65535
                  /\ FourTimesIs(ret[1], raw)

\* The raw value 65535 was returned as 16383.75, after two polls.
C14_Witness ==
    /\ op.name = "ambient_lux" /\ outcome = "returned"
    /\ Len(log) = 6 /\ log[6].data = <<255, 255>>
    /\ FourTimesIs(ret[1], 4 * 16383 + 3)

(* ------------- the bus lock with two callers: SpecLock ----------------- *)
InitLock == InitWith({33}, {0}, {0}, {0, 231}, {0}, {<<1, 2>>})

\* Two callers use one object with nothing between them but the bus lock that each
\* primitive takes; any transaction may fail.
NextLock ==
    \/ Invoke("__init__", 0)
    \/ Invoke("led_current_get", 0)
    \/ Invoke("frequency_set", 2)
    \/ __init__
    \/ led_current_set
    \/ samplerate_set
    \/ frequency_set
    \/ led_current_get
    \/ PrimNext({0})
    \/ Switch

SpecLock == InitLock /\ [][NextLock]_vars

\* The caller with call stack s is inside the `with` block of a primitive.
Holding(s) == s # <<>> /\ s[Len(s)].fn \in PrimFns /\ s[Len(s)].pc \in {"body", "exit"}

(* C15: the bus lock is held exactly while a caller is inside the `with` block of a
   primitive, by one caller at a time; a step changes a device register or the
   buffer only if the running caller holds the lock; and the lock is free once the
   primitive has left the block, by returning or by a bus error, so it is free
   whenever no primitive is executing. *)
C15_LockScopesPrimitive ==
    /\ [](locked <=> (Holding(stack) \/ Holding(other.stack)))
    /\ [](~(Holding(stack) /\ Holding(other.stack)))
    /\ [][(regs' # regs \/ BUFFER' # BUFFER) => (locked /\ Holding(stack))]_vars
    /\ [][(Holding(stack) /\ cur' = cur /\ ~Holding(stack')) => ~locked']_vars
    /\ []((stack = <<>> /\ other.stack = <<>>) => ~locked)

\* The frequency setter of caller 1 read MODTIMING and ended with a bus error at its
\* write, while caller 2, suspended, has left the block of its read and not yet
\* returned from it: the lock is free.
C15_Witness ==
    /\ cur = 1 /\ op.name = "frequency_set" /\ outcome = "OSError" /\ Len(log) = 1
    /\ ~locked
    /\ other.stack # <<>>
    /\ other.stack[Len(other.stack)].fn = "_read_u8"
    /\ other.stack[Len(other.stack)].pc = "return"

(* C16 as stated: _read_u8 is one transaction that writes the address byte and reads
   exactly one byte, into BUFFER[1], which it returns; it reads and overwrites no
   further byte, whereas _read_u16BE reads exactly two. *)
C16_ReadOneByte ==
    /\ [](\A i \in 1..Len(log) :
            /\ log[i].fn = "_read_u8" => Len(log[i].data) = 1
            /\ log[i].fn = "_read_u16BE" => Len(log[i].data) = 2)
    /\ [][(stack # <<>> /\ Top.fn = "_read_u8") => BUFFER'[2] = BUFFER[2]]_vars

(* ---------------- two callers of one object: SpecShared ---------------- *)
InitShared == InitWith({33}, {0}, {0}, {0}, {0}, {<<1, 2>>})

\* Caller 1 constructs the object and reads the LED current and the proximity, caller
\* 2 reads the ambient light from the same object, with nothing between them but the
\* bus lock that each primitive takes; the device is ready at the first poll and no
\* transaction fails.
NextShared ==
    \/ cur = 1 /\ Invoke("__init__", 0)
    \/ cur = 1 /\ Invoke("led_current_get", 0)
    \/ cur = 1 /\ Invoke("proximity", 0)
    \/ cur = 2 /\ Invoke("ambient", 0)
    \/ __init__
    \/ led_current_set
    \/ samplerate_set
    \/ frequency_set
    \/ led_current_get
    \/ proximity
    \/ ambient
    \/ WithEnter
    \/ ReadBody({96})
    \/ WriteBody
    \/ WithExit
    \/ PrimReturn
    \/ constructed = "yes" /\ Switch

SpecShared == InitShared /\ [][NextShared]_vars

\* The call that returned gave the value of the bytes its own last transaction
\* received.
ReturnedOwnBytes ==
    /\ (op.name = "led_current_get" /\ outcome = "returned") =>
          /\ Len(log) = 1 /\ IsRead(log[1], "_read_u8", _VCNL4010_IRLED)
          /\ ret = <<log[1].data[1] % 64>>
    /\ (op.name \in Measurements /\ outcome = "returned" /\ Len(log) < MaxLog) =>
          /\ IsRead(log[Len(log)], "_read_u16BE", DataRegOf(op.name))
          /\ ret = <<256 * log[Len(log)].data[1] + log[Len(log)].data[2]>>

(* C17: two callers of one object are unsafe without serialization. A call returns
   the value of the bytes its own transaction received unless another caller's
   transaction used the buffer between that transaction and the evaluation of the
   primitive's return expression (the witness is a call where that happened and the
   value returned is not the one the device sent); while the second caller has made
   no call, that never happens. *)
C17_TornOnlyByOtherCaller ==
    /\ ~torn => ReturnedOwnBytes
    /\ other.op.name = "none" => ~torn

\* led_current received 20 from IRLED in its own transaction and returned another
\* value: the other caller's transaction overwrote the buffer before the return.
C17_Witness ==
    /\ op.name = "led_current_get" /\ outcome = "returned"
    /\ log = <<[fn |-> "_read_u8", address |-> _VCNL4010_IRLED, data |-> <<20, 0>>]>>
    /\ ret # <<20>>
    /\ torn /\ other.op.name \in Measurements

(* ------------- two objects, a caller each: SpecInstances --------------- *)
InitInstances == InitWith({33}, {0}, {0}, {0}, {0}, {<<1, 2>>})

\* Each caller constructs a VCNL4010 object of its own, over a device of its own;
\* caller 1 reads the LED current from its object and caller 2 the ambient light from
\* its own: no object is used by two callers.  The devices are ready at the first
\* poll and no transaction fails.
NextInstances ==
    \/ InvokeWithin(MaxCalls - 1, "__init__", 0)
    \/ cur = 1 /\ InvokeWithin(MaxCalls - 1, "led_current_get", 0)
    \/ cur = 2 /\ InvokeWithin(MaxCalls - 1, "ambient", 0)
    \/ __init__
    \/ led_current_set
    \/ samplerate_set
    \/ frequency_set
    \/ led_current_get
    \/ ambient
    \/ WithEnter
    \/ ReadBody({96})
    \/ WriteBody
    \/ WithExit
    \/ PrimReturn
    \/ SwitchInstance

SpecInstances == InitInstances /\ [][NextInstances]_vars

(* C18 as stated: the buffer belongs to the object, so with two objects each used by
   one caller, every getter and measurement returns the value of the bytes its own
   transaction received, whatever the other object's caller does. *)
C18_InstanceOwnsBuffer ==
    /\ ReturnedOwnBytes
    /\ (op.name = "led_current_get" /\ outcome = "returned") =>
          ret = <<regs[_VCNL4010_IRLED] % 64>>

(* ------------------ getters and measurements: SpecReads ---------------- *)
InitReads == InitWith({33}, {0}, {0}, {0, 24, 231, 255}, {129}, DataPairs)

NextReads ==
    \/ Invoke("__init__", 0)
    \/ Invoke("led_current_set", 5)
    \/ Invoke("samplerate_set", 3)
    \/ Invoke("frequency_set", 2)
    \/ Invoke("led_current_get", 0)
    \/ Invoke("led_current_mA_get", 0)
    \/ Invoke("samplerate_get", 0)
    \/ Invoke("frequency_get", 0)
    \/ Invoke("proximity", 0)
    \/ Invoke("ambient", 0)
    \/ Invoke("ambient_lux", 0)
    \/ __init__
    \/ led_current_get
    \/ led_current_set
    \/ led_current_mA_get
    \/ samplerate_get
    \/ samplerate_set
    \/ frequency_get
    \/ frequency_set
    \/ proximity
    \/ ambient
    \/ ambient_lux
    \/ PrimNext({0, 96})

SpecReads == InitReads /\ [][NextReads]_vars

Getters == {"led_current_get", "led_current_mA_get", "samplerate_get", "frequency_get"}
Readings == {"proximity", "ambient", "ambient_lux"}
ConfigRegs == {_VCNL4010_IRLED, _VCNL4010_PROXRATE, _VCNL4010_MODTIMING, _VCNL4010_INTCONTROL}

\* The register a getter reads, and the value it returns for the byte b held there.
RegisterOf(name) ==
    CASE name \in {"led_current_get", "led_current_mA_get"} -> _VCNL4010_IRLED
      [] name = "samplerate_get" -> _VCNL4010_PROXRATE
      [] name = "frequency_get" -> _VCNL4010_MODTIMING
ReadingOf(name, b) ==
    CASE name = "led_current_get" -> b % 64
      [] name = "led_current_mA_get" -> 10 * (b % 64)
      [] name = "samplerate_get" -> b
      [] name = "frequency_get" -> (b \div 8) % 4

(* C19: a configuration getter issues one read transaction, of its register, and no
   write, and returns the value of what the register holds then; a measurement
   (proximity, ambient, ambient_lux) writes only INTSTAT and COMMAND; no step of a
   getter or of a measurement changes IRLED, PROXRATE, MODTIMING or INTCONTROL, so
   these keep what the constructor or a setter wrote last, INTCONTROL its 0x08. *)
C19_ReadsLeaveConfiguration ==
    /\ [](op.name \in Getters =>
            /\ Len(log) <= 1
            /\ Len(log) = 1 => IsRead(log[1], "_read_u8", RegisterOf(op.name))
            /\ outcome = "returned" =>
                  /\ Len(log) = 1
                  /\ ret = <<ReadingOf(op.name, regs[RegisterOf(op.name)])>>)
    /\ [](op.name \in Readings =>
            \A i \in 1..Len(log) :
                log[i].fn = "_write_u8" =>
                    log[i].address \in {_VCNL4010_INTSTAT, _VCNL4010_COMMAND})
    /\ [][op.name \in Getters \cup Readings =>
            \A a \in ConfigRegs : regs'[a] = regs[a]]_vars
    /\ [](constructed = "yes" => regs[_VCNL4010_INTCONTROL] = 8)
    /\ []((op.name \in Getters \cup Readings /\ prev # <<>>) =>
            CASE prev[1] = "led_current_set" -> regs[_VCNL4010_IRLED] = prev[2]
              [] prev[1] = "samplerate_set" -> regs[_VCNL4010_PROXRATE] = prev[2]
              [] prev[1] = "frequency_set" ->
                    (regs[_VCNL4010_MODTIMING] \div 8) % 4 = prev[2]
              [] OTHER -> TRUE)

\* An ambient_lux read returned after led_current = 5: IRLED still holds 5, PROXRATE
\* and INTCONTROL what the constructor wrote, MODTIMING the device's 0xE7.
C19_Witness ==
    /\ op.name = "ambient_lux" /\ outcome = "returned"
    /\ prev = <<"led_current_set", 5>>
    /\ regs[_VCNL4010_IRLED] = 5 /\ regs[_VCNL4010_PROXRATE] = 0
    /\ regs[_VCNL4010_MODTIMING] = 231 /\ regs[_VCNL4010_INTCONTROL] = 8

=============================================================================
